---- MODULE Spec2Model ----
(***************************************************************************)
(* Model of the market-concentration aggregation pipeline of               *)
(* feature-engineering/feature-engineering-final.py                        *)
(* (compute_passenger_and_hhi and calculate_hhi) and of the paging loop    *)
(* of fr24-scraper/fr24-arrivals-scraper.py (load_all_pages).              *)
(*                                                                         *)
(* Numbers.  The metric (LOAD FACTOR) of a record is a natural number.     *)
(* A float the code produces by a division is kept exact, as a fraction    *)
(* [num, den]; a float the code rounds with round(x, 2) is kept as the     *)
(* integer number of hundredths (5555.56 is 555556).                       *)
(* Missing values (None / NaN) of string columns are the value NA; a       *)
(* numeric cell that may be NaN (SEATS, MONTH) is a sequence, empty for    *)
(* NaN and <<n>> for the number n.                                         *)
(***************************************************************************)
EXTENDS Integers, Sequences, FiniteSets, TLC

VARIABLES
    pc,           \* position inside compute_passenger_and_hhi
    records,      \* the rows of the concatenated input frame, in input order
    df,           \* the frame after the derived columns are added
    grouped,      \* the aggregated frame, one row per (AIRLINE, ROUTE, Year, Month)
    route_hhi,    \* dict (Year, Month, ROUTE) -> unrounded HHI
    airport_hhi,  \* dict (Year, Month, AIRPORT) -> unrounded HHI
    flights_map,  \* dict (Year, Month, AIRPORT) -> number of endpoint appearances
    route_map,    \* frame indexed by ROUTE: first FROM_IATA / TO_IATA of the route
    final,        \* the returned table
    values,       \* argument of a direct call of calculate_hhi
    hhi,          \* results of the calls of calculate_hhi, in call order
    colmap,       \* the upper-cased column names of the input frame
    use_seats_times_load,  \* the strategy flag of the call
    raised,       \* the message of the exception that left the call, "" if none
    csv,          \* the file at outpath: empty, or holding the table written
    columns,      \* the column names of the returned table, in order
    run,          \* 1 in the first call on the input, 2 in a repeated call
    previous,     \* the tables returned by the earlier calls on the input
    order,        \* the aggregations run so far, when their order is free
    airline_period,  \* dict (Year, Month, AIRLINE) -> Airline_Load_Period
    total_period,    \* dict (Year, Month) -> Total_Load_Period
    factor,       \* what values are multiplied by in the second call of calculate_hhi
    lp,           \* position inside load_all_pages
    max_clicks_each,  \* argument of load_all_pages
    counts,       \* counts['earlier'], counts['later']
    clicked,      \* the button clicked in the last pass: its place and text, or empty
    any_clicked,  \* any_clicked at the end of the last pass
    wait,         \* how the wait for new rows of the last pass ended
    passes        \* number of passes of the outer loop so far

\* the locals and the result of compute_passenger_and_hhi
frameVars == <<df, grouped, route_hhi, airport_hhi, flights_map, route_map, final>>

\* the arguments of compute_passenger_and_hhi
callVars == <<records, colmap, use_seats_times_load>>

outVars == <<raised, csv, columns>>

runVars == <<run, previous>>

orderVars == <<order, airline_period, total_period>>

hhiVars == <<values, hhi, factor>>

loadVars == <<lp, max_clicks_each, counts, clicked, any_clicked, wait, passes>>

vars == <<pc, frameVars, callVars, outVars, runVars, orderVars, hhiVars, loadVars>>

-----------------------------------------------------------------------------
(* Bounds of the model *)

\* rows of an input frame
MaxRecords == 3

\* length of the argument of a direct call of calculate_hhi
MaxValues == 3

-----------------------------------------------------------------------------
(* Values *)

NA == "<NA>"

Frac(n, d) == [num |-> n, den |-> d]

\* A FROM / TO cell: the text before the parenthesis and the three-letter code
\* in parentheses; code = NA when the cell has no "(XXX)", text = NA when the
\* cell itself is NaN.
Cell(text, code) == [text |-> text, code |-> code]

NaCell == Cell(NA, NA)

\* str.upper() on the texts the model uses.
Upper(s) ==
    CASE s = "Cebu" -> "CEBU"
      [] s = "Manila" -> "MANILA"
      [] OTHER -> s

\* Lexicographic order of the strings that occur as AIRLINE or ROUTE values;
\* pandas sorts a NaN after every string.
StringOrder ==
    <<"-", "-CEBU", "-MANILA", "A1", "A2", "A3", "MNL-", "MNL-CEBU", "MNL-MANILA", NA>>

StrRank(s) == CHOOSE i \in 1..Len(StringOrder) : StringOrder[i] = s

RECURSIVE SumSeq(_)
SumSeq(s) == IF s = <<>> THEN 0 ELSE Head(s) + SumSeq(Tail(s))

RECURSIVE SumSqSeq(_)
SumSqSeq(s) == IF s = <<>> THEN 0 ELSE Head(s) * Head(s) + SumSqSeq(Tail(s))

\* [f(s[i]) : i] for a sequence s
MapSeq(s, f(_)) == [i \in 1..Len(s) |-> f(s[i])]

\* round-half-even of n / d (n >= 0, d > 0), as numpy's rint
RoundHalfEven(n, d) ==
    LET q == n \div d
        r == n % d
    IN  IF 2 * r < d THEN q
        ELSE IF 2 * r > d THEN q + 1
        ELSE IF q % 2 = 0 THEN q ELSE q + 1

\* round(x, 2) of the float x = f.num / f.den, in hundredths
Round2(f) ==
    (f.num \div f.den) * 100 + RoundHalfEven(100 * (f.num % f.den), f.den)

-----------------------------------------------------------------------------
(* Helpers of the source *)

extract_iata(cell) ==
    IF cell.text = NA THEN NA ELSE
    IF cell.code = NA THEN NA ELSE Upper(cell.code)

extract_city_before_paren(cell) ==
    IF cell.text = NA THEN NA ELSE Upper(cell.text)

\* Mutant of calculate_hhi: shares as fractions of 1, not percentages.
calculate_hhi_fraction(vals) ==
    IF Len(vals) = 0 THEN Frac(0, 1)
    ELSE LET total == SumSeq(vals)
         IN  IF total = 0 THEN Frac(0, 1)
             ELSE Frac(SumSqSeq(vals), total * total)

\* Mutant of calculate_hhi: the values are divided by their number, not their sum.
calculate_hhi_by_count(vals) ==
    IF Len(vals) = 0 THEN Frac(0, 1)
    ELSE LET total == SumSeq(vals)
         IN  IF total = 0 THEN Frac(0, 1)
             ELSE Frac(SumSqSeq(MapSeq(vals, LAMBDA v : v * 100)), Len(vals) * Len(vals))

calculate_hhi(vals) ==
    IF Len(vals) = 0 THEN Frac(0, 1)
    ELSE LET total == SumSeq(vals)
         IN  IF total = 0 THEN Frac(0, 1)
             ELSE Frac(SumSqSeq(MapSeq(vals, LAMBDA v : v * 100)), total * total)

fillna(x, dflt) == IF x = NA THEN dflt ELSE x

RECURSIVE SetToSeq(_)
SetToSeq(S) ==
    IF S = {} THEN <<>>
    ELSE LET x == CHOOSE y \in S : TRUE IN <<x>> \o SetToSeq(S \ {x})

Range(s) == {s[i] : i \in 1..Len(s)}

\* the rows of frame s that satisfy Test, in order
Rows(s, Test(_)) == SelectSeq(s, Test)

-----------------------------------------------------------------------------
(* compute_passenger_and_hhi: the derived columns *)

\* pick(*choices_upper): the first of the choices that is a column, else None
pick(choices_upper) ==
    IF \E i \in 1..Len(choices_upper) : choices_upper[i] \in colmap
    THEN choices_upper[CHOOSE i \in 1..Len(choices_upper) :
                          /\ choices_upper[i] \in colmap
                          /\ \A j \in 1..(i - 1) : choices_upper[j] \notin colmap]
    ELSE NA

DATE_COL == pick(<<"DATE">>)
FROM_COL == pick(<<"FROM">>)
TO_COL == pick(<<"TO">>)
AIRLINE_COL == pick(<<"AIRLINE">>)
SEATS_COL == pick(<<"# OF SEATS", "NO. OF SEATS", "SEATS", "NUMBER OF SEATS">>)
LOAD_COL == pick(<<"LOAD FACTOR", "LOAD_FACTOR", "LOADFACTOR">>)
MONTH_COL == pick(<<"MONTH">>)

\* Mutant of MissingColumn: the AIRLINE column is not checked.
MissingColumnNoAirline ==
    IF DATE_COL = NA THEN "DATE column not found."
    ELSE IF FROM_COL = NA \/ TO_COL = NA THEN "FROM and/or TO column not found."
    ELSE IF LOAD_COL = NA THEN "LOAD FACTOR column not found."
    ELSE ""

\* The KeyError of the first required column found missing, "" when none is.
MissingColumn ==
    IF DATE_COL = NA THEN "DATE column not found."
    ELSE IF FROM_COL = NA \/ TO_COL = NA THEN "FROM and/or TO column not found."
    ELSE IF AIRLINE_COL = NA THEN "AIRLINE column not found."
    ELSE IF LOAD_COL = NA THEN "LOAD FACTOR column not found."
    ELSE ""

\* 'MONTH' in df.columns and is_numeric_dtype(df['MONTH']): the MONTH cells of
\* the model are numbers or NaN, so an existing MONTH column is numeric
MonthIsColumn == MONTH_COL # NA

\* df['MONTH'].astype(int) raises when a cell of the column is NaN
MonthCastFails == MonthIsColumn /\ \E i \in 1..Len(records) : records[i].MONTH = <<>>

\* 'SEATS' in df.columns
SeatsIsColumn == SEATS_COL # NA

\* to_numeric(errors='coerce').fillna(0.0) of a SEATS cell
Seats(rec) == IF rec.SEATS = <<>> THEN 0 ELSE rec.SEATS[1]

\* One input row with the derived columns Year, Month, FROM_IATA, TO_CITY,
\* TO_IATA, ROUTE and PASSENGER_METRIC.
Normalize(rec) ==
    LET FROM_IATA == extract_iata(rec.FROM)
        TO_CITY == extract_city_before_paren(rec.TO)
        TO_IATA == extract_iata(rec.TO)
    IN  [AIRLINE |-> rec.AIRLINE,
         Year |-> rec.DATE[1],
         Month |-> IF MonthIsColumn THEN rec.MONTH[1] ELSE rec.DATE[2],
         FROM_IATA |-> FROM_IATA,
         TO_CITY |-> TO_CITY,
         TO_IATA |-> TO_IATA,
         ROUTE |-> fillna(FROM_IATA, "") \o "-" \o fillna(TO_CITY, ""),
         PASSENGER_METRIC |-> IF use_seats_times_load /\ SeatsIsColumn
                              THEN Seats(rec) * rec.LOAD
                              ELSE rec.LOAD]

-----------------------------------------------------------------------------
(* compute_passenger_and_hhi: Passenger by Airline-Route-Year-Month *)

\* Mutant of GroupKeys: groupby(..., dropna=False), a NaN airline is a group.
GroupKeysKeepNa(d) ==
    {<<r.AIRLINE, r.ROUTE, r.Year, r.Month>> : r \in Range(d)}

\* The group keys of groupby(['AIRLINE','ROUTE','Year','Month']): a row with a
\* NaN key value is in no group (pandas' dropna=True); only AIRLINE can be NaN.
GroupKeys(d) ==
    {<<r.AIRLINE, r.ROUTE, r.Year, r.Month>> : r \in {x \in Range(d) : x.AIRLINE # NA}}

\* the order groupby gives its groups: ascending by the key columns
GroupKeyLess(a, b) ==
    \/ StrRank(a[1]) < StrRank(b[1])
    \/ a[1] = b[1] /\ StrRank(a[2]) < StrRank(b[2])
    \/ a[1] = b[1] /\ a[2] = b[2] /\ a[3] < b[3]
    \/ a[1] = b[1] /\ a[2] = b[2] /\ a[3] = b[3] /\ a[4] < b[4]

\* Mutant of AggPassenger: the last record of a key overwrites the earlier ones.
AggPassengerLast(d, k) ==
    LET rows == Rows(d, LAMBDA r : <<r.AIRLINE, r.ROUTE, r.Year, r.Month>> = k)
    IN  rows[Len(rows)].PASSENGER_METRIC

\* Mutant of AggPassenger: the sums of an earlier call are carried over.
AggPassengerCarriedOver(d, k) ==
    SumSeq(MapSeq(Rows(d, LAMBDA r : <<r.AIRLINE, r.ROUTE, r.Year, r.Month>> = k),
                  LAMBDA r : r.PASSENGER_METRIC))
    + (IF previous = <<>> THEN 0
       ELSE SumSeq(MapSeq(Rows(previous[1], LAMBDA row :
                                   <<row.Airline, row.ROUTE, row.Year, row.Month>> = k),
                          LAMBDA row : row.Passenger)))

AggPassenger(d, k) ==
    SumSeq(MapSeq(Rows(d, LAMBDA r : <<r.AIRLINE, r.ROUTE, r.Year, r.Month>> = k),
                  LAMBDA r : r.PASSENGER_METRIC))

GroupAgg(d) ==
    MapSeq(SortSeq(SetToSeq(GroupKeys(d)), GroupKeyLess),
           LAMBDA k : [AIRLINE |-> k[1], ROUTE |-> k[2], Year |-> k[3], Month |-> k[4],
                       Passenger |-> AggPassenger(d, k)])

-----------------------------------------------------------------------------
(* compute_passenger_and_hhi: airline totals per period, total per period *)

\* Mutant of Airline_Load_Period: the airline's total over all periods.
AirlineLoadAllPeriods(g, y, m, a) ==
    SumSeq(MapSeq(Rows(g, LAMBDA r : r.AIRLINE = a), LAMBDA r : r.Passenger))

Airline_Load_Period(g, y, m, a) ==
    SumSeq(MapSeq(Rows(g, LAMBDA r : r.Year = y /\ r.Month = m /\ r.AIRLINE = a),
                  LAMBDA r : r.Passenger))

\* Mutant of Total_Load_Period: the total over all periods.
TotalLoadAllPeriods(g, y, m) ==
    SumSeq(MapSeq(g, LAMBDA r : r.Passenger))

Total_Load_Period(g, y, m) ==
    SumSeq(MapSeq(Rows(g, LAMBDA r : r.Year = y /\ r.Month = m),
                  LAMBDA r : r.Passenger))

\* the lambda of grouped['OwnShfli']; 0 is Python's only falsy number
OwnShfliOf(airline_load, total_load) ==
    IF total_load # 0 /\ airline_load # 0
    THEN Round2(Frac(airline_load * 100, total_load))
    ELSE 0

\* airline_period as a dict: (Year, Month, AIRLINE) -> Airline_Load_Period
AirlinePeriod(g) ==
    [key \in {<<r.Year, r.Month, r.AIRLINE>> : r \in Range(g)} |->
        Airline_Load_Period(g, key[1], key[2], key[3])]

\* total_period as a dict: (Year, Month) -> Total_Load_Period
TotalPeriod(g) ==
    [key \in {<<r.Year, r.Month>> : r \in Range(g)} |->
        Total_Load_Period(g, key[1], key[2])]

\* the two merges (how='left') and the OwnShfli column
MergeShare(g, ap, tp) ==
    MapSeq(g, LAMBDA r :
        LET al == ap[<<r.Year, r.Month, r.AIRLINE>>]
            tl == tp[<<r.Year, r.Month>>]
        IN  r @@ [Airline_Load_Period |-> al,
                  Total_Load_Period |-> tl,
                  OwnShfli |-> OwnShfliOf(al, tl)])

WithShare(g) == MergeShare(g, AirlinePeriod(g), TotalPeriod(g))

-----------------------------------------------------------------------------
(* compute_passenger_and_hhi: Route HHI (per Year, Month, Route) *)

\* dict.get(key, default)
Get(dict, key, dflt) == IF key \in DOMAIN dict THEN dict[key] ELSE dflt

\* Mutant of RouteAirVals: the airlines of the period on any route.
RouteAirValsAnyRoute(g, k) ==
    MapSeq(Rows(g, LAMBDA r : r.Year = k[1] /\ r.Month = k[2]),
           LAMBDA r : r.Passenger)

\* route_air_vals restricted to one (Year, Month, ROUTE): the Passenger of
\* each airline of the group, in the group's (AIRLINE) order
RouteAirVals(g, k) ==
    MapSeq(Rows(g, LAMBDA r : <<r.Year, r.Month, r.ROUTE>> = k),
           LAMBDA r : r.Passenger)

RouteHhiDict(g) ==
    [k \in {<<r.Year, r.Month, r.ROUTE>> : r \in Range(g)} |->
        calculate_hhi(RouteAirVals(g, k))]

WithRouteHHI(g, rh) ==
    MapSeq(g, LAMBDA r :
        r @@ [RouteHHI |-> Round2(Get(rh, <<r.Year, r.Month, r.ROUTE>>, Frac(0, 1)))])

-----------------------------------------------------------------------------
(* compute_passenger_and_hhi: airport HHIs and flight counts *)

\* Mutant of FromEnds: the rows without airline are left out as well.
FromEndsWithAirline(d) ==
    MapSeq(Rows(d, LAMBDA r : r.FROM_IATA # NA /\ r.AIRLINE # NA),
           LAMBDA r : [Year |-> r.Year, Month |-> r.Month, AIRPORT |-> r.FROM_IATA,
                       AIRLINE |-> r.AIRLINE, VAL |-> r.PASSENGER_METRIC])

\* from_ends / to_ends: one row per input row whose endpoint code is present
FromEnds(d) ==
    MapSeq(Rows(d, LAMBDA r : r.FROM_IATA # NA),
           LAMBDA r : [Year |-> r.Year, Month |-> r.Month, AIRPORT |-> r.FROM_IATA,
                       AIRLINE |-> r.AIRLINE, VAL |-> r.PASSENGER_METRIC])

ToEnds(d) ==
    MapSeq(Rows(d, LAMBDA r : r.TO_IATA # NA),
           LAMBDA r : [Year |-> r.Year, Month |-> r.Month, AIRPORT |-> r.TO_IATA,
                       AIRLINE |-> r.AIRLINE, VAL |-> r.PASSENGER_METRIC])

\* Mutant of Ends: a record counts once for an airport that is both its ends.
EndsOncePerRecord(d) ==
    FromEnds(d) \o ToEnds(Rows(d, LAMBDA r : r.TO_IATA # r.FROM_IATA))

\* Mutant of Ends: only the records whose key the route-period aggregation
\* has produced, read from grouped.
EndsOfAggregated(d) ==
    LET aggregated(r) == \E i \in 1..Len(grouped) :
                             /\ grouped[i].AIRLINE = r.AIRLINE
                             /\ grouped[i].ROUTE = r.ROUTE
                             /\ grouped[i].Year = r.Year
                             /\ grouped[i].Month = r.Month
    IN  FromEnds(Rows(d, aggregated)) \o ToEnds(Rows(d, aggregated))

Ends(d) == FromEnds(d) \o ToEnds(d)

AirlineLess(a, b) == StrRank(a) < StrRank(b)

\* seats_by_airport restricted to one (Year, Month, AIRPORT): the summed VAL of
\* each airline of the group (rows with a NaN AIRLINE are in no group)
SeatsByAirport(e, k) ==
    LET rows == Rows(e, LAMBDA r : <<r.Year, r.Month, r.AIRPORT>> = k /\ r.AIRLINE # NA)
        airlines == SortSeq(SetToSeq({r.AIRLINE : r \in Range(rows)}), AirlineLess)
    IN  MapSeq(airlines, LAMBDA a :
            SumSeq(MapSeq(Rows(rows, LAMBDA r : r.AIRLINE = a), LAMBDA r : r.VAL)))

AirportHhiDict(e) ==
    [k \in {<<r.Year, r.Month, r.AIRPORT>> : r \in {x \in Range(e) : x.AIRLINE # NA}} |->
        calculate_hhi(SeatsByAirport(e, k))]

\* Mutant of FlightsMap: only the rows that have an airline are counted.
FlightsMapWithAirline(e) ==
    [k \in {<<r.Year, r.Month, r.AIRPORT>> : r \in {x \in Range(e) : x.AIRLINE # NA}} |->
        Len(Rows(e, LAMBDA r : <<r.Year, r.Month, r.AIRPORT>> = k /\ r.AIRLINE # NA))]

\* flights_by_airport: groupby(['Year','Month','AIRPORT']).size()
FlightsMap(e) ==
    [k \in {<<r.Year, r.Month, r.AIRPORT>> : r \in Range(e)} |->
        Len(Rows(e, LAMBDA r : <<r.Year, r.Month, r.AIRPORT>> = k))]

-----------------------------------------------------------------------------
(* compute_passenger_and_hhi: route -> endpoint codes, and the four columns *)

\* Mutant of RouteMap: drop_duplicates(keep='last').
RouteMapLast(d) ==
    [rt \in {r.ROUTE : r \in Range(d)} |->
        LET i == CHOOSE j \in 1..Len(d) :
                    /\ d[j].ROUTE = rt
                    /\ \A h \in (j + 1)..Len(d) : d[h].ROUTE # rt
        IN  [FROM_IATA |-> d[i].FROM_IATA, TO_IATA |-> d[i].TO_IATA]]

\* drop_duplicates(subset=['ROUTE']) keeps the first row of every ROUTE
RouteMap(d) ==
    [rt \in {r.ROUTE : r \in Range(d)} |->
        LET i == CHOOSE j \in 1..Len(d) :
                    /\ d[j].ROUTE = rt
                    /\ \A h \in 1..(j - 1) : d[h].ROUTE # rt
        IN  [FROM_IATA |-> d[i].FROM_IATA, TO_IATA |-> d[i].TO_IATA]]

\* Mutant of EndpointAirport: the origin code is read for both endpoints.
EndpointAirportOrigin(rm, route, endpoint) ==
    IF route \notin DOMAIN rm THEN NA ELSE rm[route].FROM_IATA

\* the airport of a route's endpoint, NA when the route is not in route_map
\* (route_map.loc raises, caught by except) or the code is NaN
EndpointAirport(rm, route, endpoint) ==
    IF route \notin DOMAIN rm THEN NA
    ELSE IF endpoint = "FROM" THEN rm[route].FROM_IATA ELSE rm[route].TO_IATA

_get_airhhi(ah, rm, y, m, route, endpoint) ==
    LET airport == EndpointAirport(rm, route, endpoint)
    IN  IF airport = NA THEN 0
        ELSE Round2(Get(ah, <<y, m, airport>>, Frac(0, 1)))

_get_airfli(fm, rm, y, m, route, endpoint) ==
    LET airport == EndpointAirport(rm, route, endpoint)
    IN  IF airport = NA THEN 0
        ELSE Get(fm, <<y, m, airport>>, 0)

WithAirport(g, ah, fm, rm) ==
    MapSeq(g, LAMBDA r :
        r @@ [AirHHI_From |-> _get_airhhi(ah, rm, r.Year, r.Month, r.ROUTE, "FROM"),
              AirHHI_To |-> _get_airhhi(ah, rm, r.Year, r.Month, r.ROUTE, "TO"),
              AirFli_From |-> _get_airfli(fm, rm, r.Year, r.Month, r.ROUTE, "FROM"),
              AirFli_To |-> _get_airfli(fm, rm, r.Year, r.Month, r.ROUTE, "TO")])

-----------------------------------------------------------------------------
(* compute_passenger_and_hhi: final selection, rename, sort *)

FinalRow(r) ==
    [Airline |-> r.AIRLINE, ROUTE |-> r.ROUTE, Year |-> r.Year, Month |-> r.Month,
     Passenger |-> r.Passenger, OwnShfli |-> r.OwnShfli, RouteHHI |-> r.RouteHHI,
     AirHHI_From |-> r.AirHHI_From, AirHHI_To |-> r.AirHHI_To,
     AirFli_From |-> r.AirFli_From, AirFli_To |-> r.AirFli_To]

\* sort_values(['Year','Month','ROUTE','Airline'])
FinalLess(a, b) ==
    \/ a.Year < b.Year
    \/ a.Year = b.Year /\ a.Month < b.Month
    \/ a.Year = b.Year /\ a.Month = b.Month /\ StrRank(a.ROUTE) < StrRank(b.ROUTE)
    \/ /\ a.Year = b.Year /\ a.Month = b.Month /\ a.ROUTE = b.ROUTE
       /\ StrRank(a.Airline) < StrRank(b.Airline)

FinalTable(g) == SortSeq(MapSeq(g, FinalRow), FinalLess)

\* the columns selected from grouped, in the order of the selection
Selection ==
    <<"AIRLINE", "ROUTE", "Year", "Month", "Passenger", "OwnShfli", "RouteHHI",
      "AirHHI_From", "AirHHI_To", "AirFli_From", "AirFli_To">>

\* rename(columns={'AIRLINE':'Airline','Year':'Year','Month':'Month'})
Rename(c) ==
    CASE c = "AIRLINE" -> "Airline"
      [] c = "Year" -> "Year"
      [] c = "Month" -> "Month"
      [] OTHER -> c

FinalColumns == MapSeq(Selection, Rename)

-----------------------------------------------------------------------------
(* Inputs *)

MNL == Cell("Manila", "MNL")
CEB == Cell("CEBU", "CEB")
CebuNoCode == Cell("Cebu", NA)
CebuOtherCode == Cell("CEBU", "CBU")

\* the rows with the given values of the columns; SEATS and MONTH cells are
\* <<>> (NaN) or <<n>>
RecordsWith(airlines, froms, tos, dates, loads, seats, months) ==
    [AIRLINE : airlines, FROM : froms, TO : tos, DATE : dates, LOAD : loads,
     SEATS : seats, MONTH : months]

\* rows of a frame that has no SEATS and no MONTH column
RecordsOf(airlines, froms, tos, dates, loads) ==
    RecordsWith(airlines, froms, tos, dates, loads, {<<>>}, {<<>>})

\* every frame of at most MaxRecords rows drawn from the rows U
Frames(U) == UNION {[1..n -> U] : n \in 0..MaxRecords}

\* The input frames are drawn from small sets of rows, each the full product
\* of the values of a few columns.

\* Two airlines on a route with both endpoints and on one with none.
TwoRouteRows ==
    RecordsOf({"A1", "A2"}, {MNL}, {CEB}, {<<2024, 7>>}, {0, 1})
    \cup RecordsOf({"A1", "A2"}, {NaCell}, {NaCell}, {<<2024, 7>>}, {0, 1})

\* Two airlines on one route in two periods.
TwoPeriodRows ==
    RecordsOf({"A1", "A2"}, {MNL}, {CEB}, {<<2024, 7>>, <<2024, 8>>}, {0, 1})

\* Rows without airline, rows without endpoints.
DropRows ==
    RecordsOf({"A1", NA}, {MNL}, {CEB}, {<<2024, 7>>}, {1, 2})
    \cup RecordsOf({"A1", NA}, {NaCell}, {NaCell}, {<<2024, 7>>}, {1, 2})

\* Three airlines on one route in one period.
ThreeAirlineRows ==
    RecordsOf({"A1", "A2", "A3"}, {MNL}, {CEB}, {<<2024, 7>>}, {0, 1, 2})

\* The metrics 60, 40 and 50 of two airlines on one route.
RouteRows ==
    RecordsOf({"A1", "A2"}, {MNL}, {CEB}, {<<2024, 7>>}, {0, 40, 50, 60})

\* An airport that is origin and destination, two airlines.
AirportRows ==
    RecordsOf({"A1", "A2"}, {MNL}, {CEB, MNL}, {<<2024, 7>>}, {1, 2})

\* The same airport rows, some without airline.
AirportDropRows ==
    RecordsOf({"A1", NA}, {MNL}, {CEB, MNL}, {<<2024, 7>>}, {1, 2})

\* Every combination of a present, code-less and missing endpoint, and one
\* destination city under two codes.
EndpointRows ==
    RecordsOf({"A1"}, {MNL, NaCell}, {CEB, CebuNoCode, CebuOtherCode, NaCell},
              {<<2024, 7>>}, {1})

InputFrames ==
    Frames(TwoRouteRows) \cup Frames(TwoPeriodRows) \cup Frames(DropRows)
    \cup Frames(ThreeAirlineRows) \cup Frames(RouteRows) \cup Frames(AirportRows)
    \cup Frames(AirportDropRows) \cup Frames(EndpointRows)

\* Rows of the frames whose columns vary.
ColumnRows ==
    RecordsOf({"A1"}, {MNL}, {CEB}, {<<2024, 7>>}, {1, 2})

\* Rows with a seat count, NaN or 3.
SeatsRows ==
    RecordsWith({"A1", "A2"}, {MNL}, {CEB}, {<<2024, 7>>}, {2}, {<<>>, <<3>>}, {<<>>})

\* Rows of a frame without seat counts.
NoSeatsRows ==
    RecordsOf({"A1", "A2"}, {MNL}, {CEB}, {<<2024, 7>>}, {2, 3})

\* Rows with a MONTH cell: NaN, the month of the date, another month.
MonthRows ==
    RecordsWith({"A1"}, {MNL}, {CEB}, {<<2024, 7>>}, {1, 2}, {<<>>},
                {<<>>, <<7>>, <<8>>})

\* the columns the code requires, under their usual names
Required == {"DATE", "FROM", "TO", "AIRLINE", "LOAD FACTOR"}

\* every choice of columns among the required ones and one alias
Headers == SUBSET (Required \cup {"LOAD_FACTOR"})

\* the arguments of the direct calls of calculate_hhi
HhiArguments == UNION {[1..n -> {0, 1, 50, 100}] : n \in 0..MaxValues}

\* the factors of the scaled calls of calculate_hhi
Scales == {2, 3, 10}

\* the largest total of the scaled values
MaxScaledTotal == 400

\* buttons a pass of load_all_pages may find
MaxButtons == 2

\* largest max_clicks_each
MaxClicksEach == 3

Idle ==
    /\ df = <<>> /\ grouped = <<>> /\ route_hhi = <<>> /\ airport_hhi = <<>>
    /\ flights_map = <<>> /\ route_map = <<>> /\ final = <<>>

\* nothing raised, written or returned; first call; the aggregations not begun
Fresh ==
    /\ Idle
    /\ raised = "" /\ csv = <<>> /\ columns = <<>>
    /\ run = 1 /\ previous = <<>>
    /\ order = <<>> /\ airline_period = <<>> /\ total_period = <<>>

NoHhi == values = <<>> /\ hhi = <<>> /\ factor = 1

NoLoad ==
    /\ lp = "idle" /\ max_clicks_each = 0
    /\ counts = [earlier |-> 0, later |-> 0]
    /\ clicked = <<>> /\ any_clicked = FALSE /\ wait = "none" /\ passes = 0

\* a call of compute_passenger_and_hhi on an input frame with the required
\* columns, use_seats_times_load left at its default
InitPipeline ==
    /\ pc = "start"
    /\ records \in InputFrames
    /\ colmap = Required
    /\ use_seats_times_load = FALSE
    /\ Fresh /\ NoHhi /\ NoLoad

\* a call on a frame with any of the columns; the cells of a column the frame
\* lacks are never read, the call fails before
InitColumns ==
    /\ pc = "start"
    /\ records \in Frames(ColumnRows)
    /\ colmap \in Headers
    /\ use_seats_times_load = FALSE
    /\ Fresh /\ NoHhi /\ NoLoad

\* a call with either value of the flag, on a frame with or without seat counts
InitSeats ==
    /\ pc = "start"
    /\ \/ colmap = Required \cup {"# OF SEATS"} /\ records \in Frames(SeatsRows)
       \/ colmap = Required /\ records \in Frames(NoSeatsRows)
    /\ use_seats_times_load \in BOOLEAN
    /\ Fresh /\ NoHhi /\ NoLoad

\* a call on a frame with a MONTH column
InitMonth ==
    /\ pc = "start"
    /\ records \in Frames(MonthRows)
    /\ colmap = Required \cup {"MONTH"}
    /\ use_seats_times_load = FALSE
    /\ Fresh /\ NoHhi /\ NoLoad

\* a call of calculate_hhi on its own
InitHhi ==
    /\ pc = "hhi"
    /\ records = <<>> /\ colmap = {} /\ use_seats_times_load = FALSE
    /\ Fresh /\ NoLoad
    /\ values \in HhiArguments /\ hhi = <<>> /\ factor = 1

Init == InitPipeline \/ InitColumns \/ InitSeats \/ InitMonth \/ InitHhi

-----------------------------------------------------------------------------
(* The steps of compute_passenger_and_hhi *)

\* lines 97-104: a required column is missing
RaiseKeyError ==
    /\ pc = "start"
    /\ MissingColumn # ""
    /\ raised' = MissingColumn
    /\ pc' = "error"
    /\ UNCHANGED <<frameVars, callVars, csv, columns, runVars, orderVars, hhiVars,
                   loadVars>>

\* line 124: astype(int) of a MONTH column that holds a NaN
RaiseValueError ==
    /\ pc = "start"
    /\ MissingColumn = ""
    /\ MonthCastFails
    /\ raised' = "Cannot convert non-finite values (NA or inf) to integer"
    /\ pc' = "error"
    /\ UNCHANGED <<frameVars, callVars, csv, columns, runVars, orderVars, hhiVars,
                   loadVars>>

\* lines 78-143: pick the columns, parse the period, build the route, the metric
Parse ==
    /\ pc = "start"
    /\ MissingColumn = ""
    /\ ~MonthCastFails
    /\ df' = MapSeq(records, Normalize)
    /\ pc' = "parsed"
    /\ UNCHANGED <<grouped, route_hhi, airport_hhi, flights_map, route_map, final>>
    /\ UNCHANGED <<callVars, outVars, runVars, orderVars, hhiVars, loadVars>>

\* lines 145-148
Aggregate ==
    /\ pc = "parsed"
    /\ grouped' = GroupAgg(df)
    /\ pc' = "aggregated"
    /\ UNCHANGED <<df, route_hhi, airport_hhi, flights_map, route_map, final>>
    /\ UNCHANGED <<callVars, outVars, runVars, orderVars, hhiVars, loadVars>>

\* lines 150-160
Share ==
    /\ pc = "aggregated"
    /\ grouped' = WithShare(grouped)
    /\ pc' = "shared"
    /\ UNCHANGED <<df, route_hhi, airport_hhi, flights_map, route_map, final>>
    /\ UNCHANGED <<callVars, outVars, runVars, orderVars, hhiVars, loadVars>>

\* lines 162-167
RouteConcentration ==
    /\ pc = "shared"
    /\ route_hhi' = RouteHhiDict(grouped)
    /\ grouped' = WithRouteHHI(grouped, route_hhi')
    /\ pc' = "routed"
    /\ UNCHANGED <<df, airport_hhi, flights_map, route_map, final>>
    /\ UNCHANGED <<callVars, outVars, runVars, orderVars, hhiVars, loadVars>>

\* lines 169-183
AirportConcentration ==
    /\ pc = "routed"
    /\ airport_hhi' = AirportHhiDict(Ends(df))
    /\ flights_map' = FlightsMap(Ends(df))
    /\ pc' = "airports"
    /\ UNCHANGED <<df, grouped, route_hhi, route_map, final>>
    /\ UNCHANGED <<callVars, outVars, runVars, orderVars, hhiVars, loadVars>>

\* lines 185-213
ResolveEndpoints ==
    /\ pc = "airports"
    /\ route_map' = RouteMap(df)
    /\ grouped' = WithAirport(grouped, airport_hhi, flights_map, route_map')
    /\ pc' = "resolved"
    /\ UNCHANGED <<df, route_hhi, airport_hhi, flights_map, final>>
    /\ UNCHANGED <<callVars, outVars, runVars, orderVars, hhiVars, loadVars>>

\* lines 215-224: select, rename, sort, write the file, return
Assemble ==
    /\ pc = "resolved"
    /\ final' = FinalTable(grouped)
    /\ columns' = FinalColumns
    /\ csv' = <<final'>>
    /\ pc' = "done"
    /\ UNCHANGED <<df, grouped, route_hhi, airport_hhi, flights_map, route_map>>
    /\ UNCHANGED <<callVars, raised, runVars, orderVars, hhiVars, loadVars>>

\* calculate_hhi called on values
CallHhi ==
    /\ pc = "hhi"
    /\ hhi' = <<calculate_hhi(values)>>
    /\ pc' = "returned"
    /\ UNCHANGED <<values, factor>>
    /\ UNCHANGED <<frameVars, callVars, outVars, runVars, orderVars, loadVars>>

\* calculate_hhi called on the values each multiplied by a factor
CallHhiScaled ==
    /\ pc = "returned"
    /\ \E f \in Scales :
          /\ f * SumSeq(values) <= MaxScaledTotal
          /\ factor' = f
          /\ hhi' = Append(hhi, calculate_hhi(MapSeq(values, LAMBDA v : f * v)))
    /\ pc' = "rescaled"
    /\ UNCHANGED values
    /\ UNCHANGED <<frameVars, callVars, outVars, runVars, orderVars, loadVars>>

Next ==
    \/ CallHhi
    \/ CallHhiScaled
    \/ RaiseKeyError
    \/ RaiseValueError
    \/ Parse
    \/ Aggregate
    \/ Share
    \/ RouteConcentration
    \/ AirportConcentration
    \/ ResolveEndpoints
    \/ Assemble

Spec == Init /\ [][Next]_vars

-----------------------------------------------------------------------------
(* compute_passenger_and_hhi called a second time on the same input *)

\* the calls that are repeated
InitTwice ==
    /\ pc = "start"
    /\ records \in Frames(DropRows) \cup Frames(TwoPeriodRows)
    /\ colmap = Required
    /\ use_seats_times_load = FALSE
    /\ Fresh /\ NoHhi /\ NoLoad

\* The caller keeps the returned table and calls again with the same
\* arguments: the locals of the new call are unbound, the file of the first
\* call is still at outpath.
CallAgain ==
    /\ pc = "done"
    /\ run = 1
    /\ run' = 2
    /\ previous' = Append(previous, final)
    /\ pc' = "start"
    /\ df' = <<>> /\ grouped' = <<>> /\ route_hhi' = <<>> /\ airport_hhi' = <<>>
    /\ flights_map' = <<>> /\ route_map' = <<>> /\ final' = <<>>
    /\ columns' = <<>>
    /\ UNCHANGED <<callVars, raised, csv, orderVars, hhiVars, loadVars>>

NextTwice ==
    \/ Parse
    \/ Aggregate
    \/ Share
    \/ RouteConcentration
    \/ AirportConcentration
    \/ ResolveEndpoints
    \/ Assemble
    \/ CallAgain

SpecTwice == InitTwice /\ [][NextTwice]_vars

-----------------------------------------------------------------------------
(* The three aggregations of compute_passenger_and_hhi started in any order:
   the totals per route and period (grouped, lines 145-148), the totals per
   airline and period (airline_period and total_period, lines 150-152) and
   the totals per airport and period (airport_hhi and flights_map, lines
   169-183).  Each statement reads what it reads in the code. *)

Started(a) == \E i \in 1..Len(order) : order[i] = a

\* the calls whose aggregations are reordered
InitAnyOrder ==
    /\ pc = "start"
    /\ records \in Frames(AirportDropRows) \cup Frames(TwoPeriodRows)
    /\ colmap = Required
    /\ use_seats_times_load = FALSE
    /\ Fresh /\ NoHhi /\ NoLoad

\* lines 145-148, reading df
RoutePeriodTotals ==
    /\ pc = "parsed"
    /\ ~Started("route")
    /\ order' = Append(order, "route")
    /\ grouped' = GroupAgg(df)
    /\ UNCHANGED <<pc, df, route_hhi, airport_hhi, flights_map, route_map, final>>
    /\ UNCHANGED <<airline_period, total_period>>
    /\ UNCHANGED <<callVars, outVars, runVars, hhiVars, loadVars>>

\* lines 150-152, reading grouped
AirlinePeriodTotals ==
    /\ pc = "parsed"
    /\ ~Started("airline")
    /\ Started("route")
    /\ order' = Append(order, "airline")
    /\ airline_period' = AirlinePeriod(grouped)
    /\ total_period' = TotalPeriod(grouped)
    /\ UNCHANGED <<pc, frameVars, callVars, outVars, runVars, hhiVars, loadVars>>

\* lines 150-152 before grouped is bound: the read of grouped raises
AirlinePeriodTotalsUnbound ==
    /\ pc = "parsed"
    /\ ~Started("airline")
    /\ ~Started("route")
    /\ order' = Append(order, "airline")
    /\ raised' = "UnboundLocalError: grouped"
    /\ pc' = "error"
    /\ UNCHANGED <<airline_period, total_period, csv, columns>>
    /\ UNCHANGED <<frameVars, callVars, runVars, hhiVars, loadVars>>

\* lines 169-183, reading df
AirportPeriodTotals ==
    /\ pc = "parsed"
    /\ ~Started("airport")
    /\ order' = Append(order, "airport")
    /\ airport_hhi' = AirportHhiDict(Ends(df))
    /\ flights_map' = FlightsMap(Ends(df))
    /\ UNCHANGED <<pc, df, grouped, route_hhi, route_map, final>>
    /\ UNCHANGED <<airline_period, total_period>>
    /\ UNCHANGED <<callVars, outVars, runVars, hhiVars, loadVars>>

\* lines 154-167 and 185-224: the merges, the columns, the sort, the file
Join ==
    /\ pc = "parsed"
    /\ Started("route") /\ Started("airline") /\ Started("airport")
    /\ route_hhi' = RouteHhiDict(grouped)
    /\ route_map' = RouteMap(df)
    /\ grouped' = WithAirport(
                      WithRouteHHI(MergeShare(grouped, airline_period, total_period),
                                   route_hhi'),
                      airport_hhi, flights_map, route_map')
    /\ final' = FinalTable(grouped')
    /\ columns' = FinalColumns
    /\ csv' = <<final'>>
    /\ pc' = "done"
    /\ UNCHANGED <<df, airport_hhi, flights_map>>
    /\ UNCHANGED <<callVars, raised, runVars, orderVars, hhiVars, loadVars>>

NextAnyOrder ==
    \/ Parse
    \/ RoutePeriodTotals
    \/ AirlinePeriodTotals
    \/ AirlinePeriodTotalsUnbound
    \/ AirportPeriodTotals
    \/ Join

SpecAnyOrder == InitAnyOrder /\ [][NextAnyOrder]_vars

-----------------------------------------------------------------------------
(* load_all_pages of fr24-scraper/fr24-arrivals-scraper.py: the loop that
   clicks the 'Load earlier flights' / 'Load later flights' buttons.  A pass
   of the outer loop is one action; what the page presents in a pass (the
   buttons found, whether is_displayed() answers or raises, whether the click
   and the wait for new rows succeed) is chosen freely. *)

\* str.lower() of the innerText of a button
lower(text) ==
    CASE text = "Load earlier flights" -> "load earlier flights"
      [] text = "Load later flights" -> "load later flights"
      [] text = "EARLIER / LATER" -> "earlier / later"
      [] OTHER -> text

\* word in text, for the lower-case texts of the model
Contains(text, word) ==
    <<text, word>> \in {<<"load earlier flights", "earlier">>,
                        <<"load later flights", "later">>,
                        <<"earlier / later", "earlier">>,
                        <<"earlier / later", "later">>}

\* a button: is_displayed() answers True ("shown"), False ("hidden") or raises
\* ("stale"); its innerText
Button ==
    [displayed : {"shown", "hidden", "stale"},
     innerText : {"Load earlier flights", "Load later flights", "EARLIER / LATER",
                  "search"}]

\* the lists of buttons a pass may find
ButtonLists == UNION {[1..n -> Button] : n \in 0..MaxButtons}

\* the branch of the for loop a button takes under the counters c
Branch(b, c) ==
    IF b.displayed # "shown" THEN "continue"
    ELSE IF Contains(lower(b.innerText), "earlier") /\ c.earlier < max_clicks_each
         THEN "earlier"
    ELSE IF Contains(lower(b.innerText), "later") /\ c.later < max_clicks_each
         THEN "later"
    ELSE "continue"

\* Mutant of ForButtons: no break after a click.
RECURSIVE ForButtonsNoBreak(_, _)
ForButtonsNoBreak(bs, c) ==
    IF bs = <<>> THEN c
    ELSE LET branch == Branch(Head(bs), c)
         IN  IF branch = "earlier"
             THEN ForButtonsNoBreak(Tail(bs), [c EXCEPT !.earlier = @ + 1])
             ELSE IF branch = "later"
             THEN ForButtonsNoBreak(Tail(bs), [c EXCEPT !.later = @ + 1])
             ELSE ForButtonsNoBreak(Tail(bs), c)

\* the counters after the for loop over the buttons bs, entered with the
\* counters c: the first button that takes a click branch is clicked and the
\* loop is left
RECURSIVE ForButtons(_, _)
ForButtons(bs, c) ==
    IF bs = <<>> THEN c
    ELSE LET branch == Branch(Head(bs), c)
         IN  IF branch = "earlier" THEN [c EXCEPT !.earlier = @ + 1]
             ELSE IF branch = "later" THEN [c EXCEPT !.later = @ + 1]
             ELSE ForButtons(Tail(bs), c)

\* the button of bs the for loop clicks under the counters c, with its place
\* in the list; empty when it clicks none
ClickedButton(bs, c) ==
    LET I == {i \in 1..Len(bs) : Branch(bs[i], c) # "continue"}
    IN  IF I = {} THEN <<>>
        ELSE LET i == CHOOSE j \in I : \A h \in I : j <= h
             IN  <<[at |-> i, innerText |-> bs[i].innerText]>>

\* the test that ends the outer loop
Exhausted(c) == c.earlier >= max_clicks_each /\ c.later >= max_clicks_each

\* a call of load_all_pages
InitLoad ==
    /\ pc = "idle"
    /\ records = <<>> /\ colmap = {} /\ use_seats_times_load = FALSE
    /\ Fresh /\ NoHhi
    /\ lp = "loop"
    /\ max_clicks_each \in 0..MaxClicksEach
    /\ counts = [earlier |-> 0, later |-> 0]
    /\ clicked = <<>> /\ any_clicked = FALSE /\ wait = "none" /\ passes = 0

\* One pass of the while loop in which no exception leaves the function: the
\* click succeeds, directly or through the script, and the wait for new rows
\* ends with rows or with a timeout that is passed over.
Pass ==
    /\ lp = "loop"
    /\ \E bs \in ButtonLists :
          LET c == ForButtons(bs, counts)
          IN  /\ clicked' = ClickedButton(bs, counts)
              /\ counts' = c
              /\ any_clicked' = (c # counts)
              /\ \/ c # counts /\ wait' \in {"rows", "timeout"}
                 \/ c = counts /\ wait' = "none"
              /\ lp' = IF c = counts \/ Exhausted(c) THEN "returned" ELSE "loop"
    /\ passes' = passes + 1
    /\ UNCHANGED <<pc, max_clicks_each>>
    /\ UNCHANGED <<frameVars, callVars, outVars, runVars, orderVars, hhiVars>>

\* A pass in which the click of the button and the click through the script
\* both raise: the exception leaves the function before the counter is
\* incremented.
PassRaises ==
    /\ lp = "loop"
    /\ \E bs \in ButtonLists :
          /\ ForButtons(bs, counts) # counts
          /\ clicked' = <<>>
    /\ lp' = "raised"
    /\ any_clicked' = FALSE
    /\ wait' = "none"
    /\ passes' = passes + 1
    /\ UNCHANGED <<pc, max_clicks_each, counts>>
    /\ UNCHANGED <<frameVars, callVars, outVars, runVars, orderVars, hhiVars>>

NextLoad ==
    \/ Pass
    \/ PassRaises

SpecLoad == InitLoad /\ [][NextLoad]_vars

-----------------------------------------------------------------------------
(* What the properties below are stated in: the canonical input records (df)
   and the rows of the returned table (final). *)

\* sum of the metric over the input records that satisfy P
MetricOver(P(_)) == SumSeq(MapSeq(Rows(df, P), LAMBDA r : r.PASSENGER_METRIC))

\* sum of Passenger over the output rows that satisfy P
PassengerOver(P(_)) == SumSeq(MapSeq(Rows(final, P), LAMBDA r : r.Passenger))

RowKey(row) == <<row.Airline, row.ROUTE, row.Year, row.Month>>

RecordKey(r) == <<r.AIRLINE, r.ROUTE, r.Year, r.Month>>

\* no origin code and no destination city: the route string names no endpoint
RouteMissing(r) == r.FROM_IATA = NA /\ r.TO_CITY = NA

Finished == pc = "done"

\* the positions of a run of compute_passenger_and_hhi that has raised nothing
PipelinePositions ==
    {"start", "parsed", "aggregated", "shared", "routed", "airports", "resolved", "done"}

-----------------------------------------------------------------------------
\* C1: the output has exactly one row for each distinct (airline, route, year,
\* month) key of the input records, and the row's Passenger is the sum of the
\* metric over all the input records with that key.
C1_OneRowPerKeySummed ==
    Finished =>
        /\ {RowKey(final[i]) : i \in 1..Len(final)}
              = {RecordKey(r) : r \in {x \in Range(df) : x.AIRLINE # NA}}
        /\ \A i, j \in 1..Len(final) : RowKey(final[i]) = RowKey(final[j]) => i = j
        /\ \A i \in 1..Len(final) :
              final[i].Passenger
                 = MetricOver(LAMBDA r : RecordKey(r) = RowKey(final[i]))

\* two records share a key, both with a positive metric, and another key exists
C1_Witness ==
    /\ Finished
    /\ Len(final) >= 2
    /\ \E i, j \in 1..Len(df) :
          /\ i < j
          /\ df[i].AIRLINE # NA
          /\ RecordKey(df[i]) = RecordKey(df[j])
          /\ df[i].PASSENGER_METRIC > 0
          /\ df[j].PASSENGER_METRIC > 0
          /\ df[i].PASSENGER_METRIC # df[j].PASSENGER_METRIC

-----------------------------------------------------------------------------
-----------------------------------------------------------------------------
\* the airline's Passenger over all its routes in one period
AirlineTotal(a, y, m) ==
    PassengerOver(LAMBDA row : row.Airline = a /\ row.Year = y /\ row.Month = m)

\* the Passenger of all airlines in one period
GrandTotal(y, m) == PassengerOver(LAMBDA row : row.Year = y /\ row.Month = m)

\* the airlines with a row in one period
AirlinesOf(y, m) ==
    {final[i].Airline : i \in {j \in 1..Len(final) : final[j].Year = y /\ final[j].Month = m}}

Periods == {<<final[i].Year, final[i].Month>> : i \in 1..Len(final)}

\* the OwnShfli of an airline in a period (that of its first row there)
OwnShfliIn(a, y, m) ==
    LET i == CHOOSE j \in 1..Len(final) :
                final[j].Airline = a /\ final[j].Year = y /\ final[j].Month = m
    IN  final[i].OwnShfli

RECURSIVE SumOver(_, _)
SumOver(S, f) ==
    IF S = {} THEN 0
    ELSE LET x == CHOOSE y \in S : TRUE IN f[x] + SumOver(S \ {x}, f)

Abs(n) == IF n < 0 THEN -n ELSE n

\* C3: OwnShfli of a row is round(airline_total / grand_total * 100, 2) of the
\* row's airline and period, 0.00 when either total is not positive, and is the
\* same on all rows of one airline and period.
C3_OwnShfliIsPeriodShare ==
    Finished =>
        /\ \A i \in 1..Len(final) :
              LET at == AirlineTotal(final[i].Airline, final[i].Year, final[i].Month)
                  gt == GrandTotal(final[i].Year, final[i].Month)
              IN  final[i].OwnShfli
                     = IF gt > 0 /\ at > 0 THEN Round2(Frac(at * 100, gt)) ELSE 0
        /\ \A i, j \in 1..Len(final) :
              /\ final[i].Airline = final[j].Airline
              /\ final[i].Year = final[j].Year
              /\ final[i].Month = final[j].Month
              => final[i].OwnShfli = final[j].OwnShfli

\* an airline with rows on two routes in one period and a positive share, and
\* an airline whose records of that period all have metric 0
C3_Witness ==
    /\ Finished
    /\ \E i, j, k \in 1..Len(final) :
          /\ final[i].Airline = final[j].Airline
          /\ final[i].ROUTE # final[j].ROUTE
          /\ final[i].Year = final[j].Year /\ final[i].Month = final[j].Month
          /\ final[i].OwnShfli > 0
          /\ final[k].Airline # final[i].Airline
          /\ final[k].Year = final[i].Year /\ final[k].Month = final[i].Month
          /\ final[k].Passenger = 0 /\ final[k].OwnShfli = 0

-----------------------------------------------------------------------------
\* C4: OwnShfli lies in [0, 100]; in a period whose grand total is positive the
\* OwnShfli of its distinct airlines sum to 100.00 up to the rounding of each
\* term (half a hundredth per airline).
C4_OwnShfliRangeAndSum ==
    Finished =>
        /\ \A i \in 1..Len(final) : final[i].OwnShfli >= 0 /\ final[i].OwnShfli <= 10000
        /\ \A p \in Periods :
              GrandTotal(p[1], p[2]) > 0 =>
                  LET A == AirlinesOf(p[1], p[2])
                      total == SumOver(A, [a \in A |-> OwnShfliIn(a, p[1], p[2])])
                  IN  2 * Abs(total - 10000) <= Cardinality(A)

\* three airlines with a third of the period each: 33.33 + 33.33 + 33.33
C4_Witness ==
    /\ Finished
    /\ \E p \in Periods :
          /\ Cardinality(AirlinesOf(p[1], p[2])) = 3
          /\ \A a \in AirlinesOf(p[1], p[2]) : OwnShfliIn(a, p[1], p[2]) = 3333

-----------------------------------------------------------------------------
RECURSIVE Gcd(_, _)
Gcd(a, b) == IF b = 0 THEN a ELSE Gcd(b, a % b)

\* the fractions f and g (positive denominators) are the same number
SameNumber(f, g) ==
    LET df_ == Gcd(f.num, f.den)
        dg == Gcd(g.num, g.den)
    IN  /\ f.num \div df_ = g.num \div dg
        /\ f.den \div df_ = g.den \div dg

\* the number n
Whole(n) == Frac(n, 1)

\* the values of vals that are not 0
Positive(vals) == SelectSeq(vals, LAMBDA v : v > 0)

\* C5: calculate_hhi of non-negative values divides by no zero and returns the
\* sum of the squared percentage shares, between 0 and 10000: 0 for no values
\* and for values of sum 0, 10000 when one value holds the whole total, 5000
\* for two equal positive values.
C5_HhiValue ==
    pc = "returned" =>
        LET h == hhi[1]
            total == SumSeq(values)
        IN  /\ h.den > 0
            /\ h.num >= 0 /\ h.num <= 10000 * h.den
            /\ (Len(values) = 0 \/ total = 0) => h = Whole(0)
            /\ total > 0 =>
                  SameNumber(h, Frac(10000 * SumSqSeq(values), total * total))
            /\ Len(Positive(values)) = 1 => SameNumber(h, Whole(10000))
            /\ (Len(values) = 2 /\ values[1] = values[2] /\ values[1] > 0)
                  => SameNumber(h, Whole(5000))
            /\ values = <<100>> => SameNumber(h, Whole(10000))
            /\ values = <<50, 50>> => SameNumber(h, Whole(5000))
            /\ values = <<0, 0>> => h = Whole(0)

\* the calls HHI([100]), HHI([50, 50]), HHI([]) and HHI([0, 0]) have returned,
\* as has one of unequal shares
C5_Witness ==
    /\ pc = "returned"
    /\ values \in {<<100>>, <<50, 50>>, <<>>, <<0, 0>>, <<100, 50>>}

-----------------------------------------------------------------------------
InputPeriods == {<<r.Year, r.Month>> : r \in Range(df)}

Airports == {"MNL", "CEB", "CBU"}

\* the airlines in ascending order
InOrder(A) == SortSeq(SetToSeq(A), LAMBDA a, b : StrRank(a) < StrRank(b))

\* the summed metric of each airline with a record on the route in the period
RouteSums(route, y, m) ==
    LET A == {r.AIRLINE : r \in {x \in Range(df) :
                  x.AIRLINE # NA /\ x.ROUTE = route /\ x.Year = y /\ x.Month = m}}
    IN  MapSeq(InOrder(A), LAMBDA a :
            MetricOver(LAMBDA r : r.AIRLINE = a /\ r.ROUTE = route
                                  /\ r.Year = y /\ r.Month = m))

\* C6: RouteHHI of a row is calculate_hhi, rounded to 2 decimals, of the summed
\* metric of each airline on the row's (route, year, month); the total that HHI
\* divides by is the Passenger of all rows of that (route, year, month).  Sums
\* of 100 and 50 give 5555.56.
C6_RouteHhi ==
    Finished =>
        \A i \in 1..Len(final) :
            LET row == final[i]
                sums == RouteSums(row.ROUTE, row.Year, row.Month)
                passengers == PassengerOver(LAMBDA x : /\ x.ROUTE = row.ROUTE
                                                       /\ x.Year = row.Year
                                                       /\ x.Month = row.Month)
                h == route_hhi[<<row.Year, row.Month, row.ROUTE>>]
            IN  /\ row.RouteHHI = Round2(calculate_hhi(sums))
                /\ SumSeq(sums) = passengers
                /\ passengers > 0 => h.den = passengers * passengers
                /\ sums = <<100, 50>> => row.RouteHHI = 555556

\* A1 with records of 60 and 40 and A2 with a record of 50 on one route and
\* period: both rows carry 5555.56
C6_Witness ==
    /\ Finished
    /\ Len(df) = 3
    /\ \A i \in 1..3 : df[i].ROUTE = "MNL-CEBU"
    /\ df[1].AIRLINE = "A1" /\ df[1].PASSENGER_METRIC = 60
    /\ df[2].AIRLINE = "A1" /\ df[2].PASSENGER_METRIC = 40
    /\ df[3].AIRLINE = "A2" /\ df[3].PASSENGER_METRIC = 50
    /\ Len(final) = 2
    /\ final[1].RouteHHI = 555556 /\ final[2].RouteHHI = 555556

-----------------------------------------------------------------------------
\* how often the airport is an endpoint of the record: 0, 1 or 2
Appearances(r, ap) ==
    (IF r.FROM_IATA = ap THEN 1 ELSE 0) + (IF r.TO_IATA = ap THEN 1 ELSE 0)

\* the metric of each airline at the airport in the period, once per appearance
AirportSums(ap, y, m) ==
    LET here(r) == r.AIRLINE # NA /\ r.Year = y /\ r.Month = m /\ Appearances(r, ap) > 0
        A == {r.AIRLINE : r \in {x \in Range(df) : here(x)}}
    IN  MapSeq(InOrder(A), LAMBDA a :
            SumSeq(MapSeq(Rows(df, LAMBDA r : here(r) /\ r.AIRLINE = a),
                          LAMBDA r : r.PASSENGER_METRIC * Appearances(r, ap))))

AirportComputed == pc \in {"airports", "resolved", "done"}

\* C7: the HHI of (airport, year, month) is calculate_hhi, rounded to 2
\* decimals, of the per-airline sums of the metric over the records of the
\* period with the airport as origin or destination, pooled, a record counting
\* once per appearance; the rows of a route carry that of their endpoints.
C7_AirportHhi ==
    /\ AirportComputed =>
          \A ap \in Airports : \A p \in InputPeriods :
              Round2(Get(airport_hhi, <<p[1], p[2], ap>>, Frac(0, 1)))
                 = Round2(calculate_hhi(AirportSums(ap, p[1], p[2])))
    /\ Finished =>
          \A i \in 1..Len(final) :
              LET row == final[i]
                  from == route_map[row.ROUTE].FROM_IATA
                  to == route_map[row.ROUTE].TO_IATA
              IN  /\ from # NA => row.AirHHI_From
                        = Round2(calculate_hhi(AirportSums(from, row.Year, row.Month)))
                  /\ to # NA => row.AirHHI_To
                        = Round2(calculate_hhi(AirportSums(to, row.Year, row.Month)))

\* a record from and to the same airport, a second airline at that airport in
\* the period, and a row whose origin HHI is neither 0 nor 10000
C7_Witness ==
    /\ Finished
    /\ \E r, q \in Range(df) :
          /\ r.FROM_IATA # NA /\ r.FROM_IATA = r.TO_IATA
          /\ q.AIRLINE # r.AIRLINE /\ q.AIRLINE # NA /\ r.AIRLINE # NA
          /\ q.Year = r.Year /\ q.Month = r.Month
          /\ q.FROM_IATA = r.FROM_IATA /\ q.TO_IATA # r.TO_IATA
    /\ \E i \in 1..Len(final) : final[i].AirHHI_From \notin {0, 1000000}

-----------------------------------------------------------------------------
\* the records of the period with the airport as origin, as destination
OriginCount(ap, y, m) ==
    Len(Rows(df, LAMBDA r : r.FROM_IATA = ap /\ r.Year = y /\ r.Month = m))

DestinationCount(ap, y, m) ==
    Len(Rows(df, LAMBDA r : r.TO_IATA = ap /\ r.Year = y /\ r.Month = m))

\* C8: the flight count of (airport, year, month) is the number of records of
\* the period with the airport as origin plus the number with it as
\* destination; a missing endpoint is in no count; the rows of a route carry
\* the counts of their endpoints.
C8_FlightCounts ==
    /\ AirportComputed =>
          /\ \A ap \in Airports : \A p \in InputPeriods :
                Get(flights_map, <<p[1], p[2], ap>>, 0)
                   = OriginCount(ap, p[1], p[2]) + DestinationCount(ap, p[1], p[2])
          /\ SumOver(DOMAIN flights_map, flights_map)
                = Len(Rows(df, LAMBDA r : r.FROM_IATA # NA))
                  + Len(Rows(df, LAMBDA r : r.TO_IATA # NA))
    /\ Finished =>
          \A i \in 1..Len(final) :
              LET row == final[i]
                  from == route_map[row.ROUTE].FROM_IATA
                  to == route_map[row.ROUTE].TO_IATA
              IN  /\ from # NA => row.AirFli_From
                        = OriginCount(from, row.Year, row.Month)
                          + DestinationCount(from, row.Year, row.Month)
                  /\ to # NA => row.AirFli_To
                        = OriginCount(to, row.Year, row.Month)
                          + DestinationCount(to, row.Year, row.Month)

\* a record without airline with both endpoints, a record without endpoints,
\* and a row whose origin airport has two flights
C8_Witness ==
    /\ Finished
    /\ \E r \in Range(df) : r.AIRLINE = NA /\ r.FROM_IATA # NA /\ r.TO_IATA # NA
    /\ \E r \in Range(df) : r.FROM_IATA = NA /\ r.TO_IATA = NA
    /\ \E i \in 1..Len(final) : final[i].AirFli_From = 2 /\ final[i].AirFli_To = 2

-----------------------------------------------------------------------------
Resolved == pc \in {"resolved", "done"}

\* the indexes of the records of the route, and of those with both codes
RecordsOfRoute(route) == {i \in 1..Len(df) : df[i].ROUTE = route}

CompleteRecordsOfRoute(route) ==
    {i \in RecordsOfRoute(route) : df[i].FROM_IATA # NA /\ df[i].TO_IATA # NA}

First(I) == CHOOSE i \in I : \A j \in I : i <= j

EndpointPair(i) == [FROM_IATA |-> df[i].FROM_IATA, TO_IATA |-> df[i].TO_IATA]

\* C9 (as claimed): the map gives a route the first pair of its records in
\* which no code is missing.
C9_FirstNonMissingPair ==
    Resolved =>
        \A route \in DOMAIN route_map :
            CompleteRecordsOfRoute(route) # {} =>
                route_map[route] = EndpointPair(First(CompleteRecordsOfRoute(route)))

\* C9 (amended): the map has the routes of the input and gives each the pair
\* of codes of the first record of the route in input order, a missing code
\* included.
C9_FirstRecordPair ==
    Resolved =>
        /\ DOMAIN route_map = {df[i].ROUTE : i \in 1..Len(df)}
        /\ \A route \in DOMAIN route_map :
              route_map[route] = EndpointPair(First(RecordsOfRoute(route)))

\* the first record of a route has no destination code, a later record of the
\* route has both codes, and the map holds the missing code of the first
C9_Witness ==
    /\ Resolved
    /\ \E i, j \in 1..Len(df) :
          /\ i = First(RecordsOfRoute(df[i].ROUTE))
          /\ i < j /\ df[j].ROUTE = df[i].ROUTE
          /\ df[i].TO_IATA = NA /\ df[j].TO_IATA # NA /\ df[j].FROM_IATA # NA
          /\ route_map[df[i].ROUTE].TO_IATA = NA

-----------------------------------------------------------------------------
\* C10: an endpoint of a route with no airport (the map holds no code for it)
\* gives 0.0 and 0 in that endpoint's columns on every row of the route; so
\* does a route whose records never have a destination code, and an airport no
\* record of the period touches; the four columns always hold a number.
C10_UnresolvedEndpointIsZero ==
    Finished =>
        \A i \in 1..Len(final) :
            LET row == final[i]
                pair == route_map[row.ROUTE]
                touched(ap) == OriginCount(ap, row.Year, row.Month)
                               + DestinationCount(ap, row.Year, row.Month) > 0
            IN  /\ {row.AirHHI_From, row.AirHHI_To, row.AirFli_From, row.AirFli_To}
                       \subseteq Nat
                /\ (pair.FROM_IATA = NA \/ ~touched(pair.FROM_IATA))
                       => row.AirHHI_From = 0 /\ row.AirFli_From = 0
                /\ (pair.TO_IATA = NA \/ ~touched(pair.TO_IATA))
                       => row.AirHHI_To = 0 /\ row.AirFli_To = 0
                /\ (\A j \in RecordsOfRoute(row.ROUTE) : df[j].TO_IATA = NA)
                       => row.AirHHI_To = 0 /\ row.AirFli_To = 0
                /\ (\A j \in RecordsOfRoute(row.ROUTE) : df[j].FROM_IATA = NA)
                       => row.AirHHI_From = 0 /\ row.AirFli_From = 0

\* a row of a route whose records have an origin code and never a destination
\* code, while another route has one
C10_Witness ==
    /\ Finished
    /\ \E i \in 1..Len(final) :
          /\ \A j \in RecordsOfRoute(final[i].ROUTE) :
                df[j].TO_IATA = NA /\ df[j].FROM_IATA # NA
          /\ final[i].AirHHI_To = 0 /\ final[i].AirFli_To = 0
          /\ final[i].AirHHI_From > 0 /\ final[i].AirFli_From > 0
    /\ \E r \in Range(df) : r.TO_IATA # NA

-----------------------------------------------------------------------------
\* row a comes before row b in the order of (Year, Month, route, airline):
\* the numbers ascending, the strings in lexicographic order
KeyBefore(a, b) ==
    LET ka == <<a.Year, a.Month, StrRank(a.ROUTE), StrRank(a.Airline)>>
        kb == <<b.Year, b.Month, StrRank(b.ROUTE), StrRank(b.Airline)>>
    IN  \E i \in 1..4 : ka[i] < kb[i] /\ \A j \in 1..(i - 1) : ka[j] = kb[j]

\* the rows of the returned table are strictly ascending by their key
RowsAscending ==
    \A i \in 1..(Len(final) - 1) : KeyBefore(final[i], final[i + 1])

\* C11: the returned table has exactly the columns Airline, Route, Year, Month,
\* Passenger, OwnShfli, RouteHHI, AirHHI_From, AirHHI_To, AirFli_From,
\* AirFli_To, under these names and in this order, and its rows are strictly
\* ascending by (Year, Month, Route, Airline), a key no two rows share.
C11_ColumnsAndOrder ==
    Finished =>
        /\ columns = <<"Airline", "Route", "Year", "Month", "Passenger", "OwnShfli",
                       "RouteHHI", "AirHHI_From", "AirHHI_To", "AirFli_From",
                       "AirFli_To">>
        /\ RowsAscending

\* What the table does satisfy: the eleven columns in the order of C11, the
\* second of them under the name ROUTE, and the rows in the order of C11.
C11_RouteColumnInCapitals ==
    Finished =>
        /\ columns = <<"Airline", "ROUTE", "Year", "Month", "Passenger", "OwnShfli",
                       "RouteHHI", "AirHHI_From", "AirHHI_To", "AirFli_From",
                       "AirFli_To">>
        /\ \A i \in 1..Len(final) : DOMAIN final[i] = Range(columns)
        /\ RowsAscending

\* a returned table of three rows that differ in month, in route and in airline
C11_Witness ==
    /\ Finished
    /\ Len(final) = 3
    /\ final[1].Month < final[3].Month
    /\ \E i \in 1..2 : final[i].Month = final[i + 1].Month
                       /\ (final[i].ROUTE # final[i + 1].ROUTE
                           \/ final[i].Airline # final[i + 1].Airline)

-----------------------------------------------------------------------------
\* the names under which the code accepts each required column
RequiredColumns ==
    <<{"DATE"}, {"FROM"}, {"TO"}, {"AIRLINE"},
      {"LOAD FACTOR", "LOAD_FACTOR", "LOADFACTOR"}>>

\* the required columns that are absent from the whole input frame
Absent == {i \in 1..Len(RequiredColumns) : RequiredColumns[i] \cap colmap = {}}

\* the required columns an error message names
Named(message) ==
    CASE message = "DATE column not found." -> {1}
      [] message = "FROM and/or TO column not found." -> {2, 3}
      [] message = "AIRLINE column not found." -> {4}
      [] message = "LOAD FACTOR column not found." -> {5}
      [] OTHER -> {}

\* a call of compute_passenger_and_hhi has left its first position
Begun == pc \in (PipelinePositions \ {"start"}) \cup {"error"}

\* C12: when a required column (airline, FROM, TO, DATE, LOAD FACTOR) is absent
\* from the whole input, the call fails at once with an error that names a
\* missing column, before anything is aggregated and before anything is
\* written: no frame, no mapping, no table and no file exist.
C12_MissingColumnFailsFast ==
    (Begun /\ Absent # {}) =>
        /\ pc = "error"
        /\ Named(raised) \cap Absent # {}
        /\ Named(raised) \subseteq Absent \cup {2, 3}
        /\ df = <<>> /\ grouped = <<>>
        /\ route_hhi = <<>> /\ airport_hhi = <<>> /\ flights_map = <<>>
        /\ route_map = <<>>
        /\ final = <<>> /\ columns = <<>> /\ csv = <<>>

\* a call on a frame with rows and every required column but AIRLINE has failed
C12_Witness ==
    /\ pc = "error"
    /\ Len(records) > 0
    /\ Absent = {4}
    /\ raised = "AIRLINE column not found."

-----------------------------------------------------------------------------
\* every cell of every row of the returned table holds a value
Populated ==
    \A i \in 1..Len(final) :
        /\ DOMAIN final[i] = Range(FinalColumns)
        /\ final[i].Airline # NA /\ final[i].ROUTE # NA
        /\ \A c \in DOMAIN final[i] \ {"Airline", "ROUTE"} : final[i][c] \in Nat

\* C13: only a missing required column makes the call fail: on an input that
\* has all the required columns the call returns, whatever the values of the
\* rows, and every cell of the returned table holds a value.
C13_OnlyMissingColumnEscalates ==
    /\ pc = "error" => Absent # {}
    /\ (Begun /\ Absent = {}) => pc \in PipelinePositions
    /\ Finished => Populated

-----------------------------------------------------------------------------
-----------------------------------------------------------------------------
\* airport_hhi and flights_map are what the input records give
AirportMappingsFromInput ==
    \A ap \in Airports : \A p \in InputPeriods :
        /\ SameNumber(Get(airport_hhi, <<p[1], p[2], ap>>, Frac(0, 1)),
                      calculate_hhi(AirportSums(ap, p[1], p[2])))
        /\ Get(flights_map, <<p[1], p[2], ap>>, 0)
              = OriginCount(ap, p[1], p[2]) + DestinationCount(ap, p[1], p[2])

\* airline_period and total_period are what the input records give
AirlineMappingsFromInput ==
    /\ DOMAIN airline_period
          = {<<r.Year, r.Month, r.AIRLINE>> : r \in {x \in Range(df) : x.AIRLINE # NA}}
    /\ \A key \in DOMAIN airline_period :
          airline_period[key]
             = MetricOver(LAMBDA r : <<r.Year, r.Month, r.AIRLINE>> = key)
    /\ DOMAIN total_period
          = {<<r.Year, r.Month>> : r \in {x \in Range(df) : x.AIRLINE # NA}}
    /\ \A key \in DOMAIN total_period :
          total_period[key]
             = MetricOver(LAMBDA r : <<r.Year, r.Month>> = key /\ r.AIRLINE # NA)

\* grouped (before the merges) is what the input records give
RouteMappingFromInput ==
    /\ {<<grouped[i].AIRLINE, grouped[i].ROUTE, grouped[i].Year, grouped[i].Month>> :
            i \in 1..Len(grouped)}
          = {RecordKey(r) : r \in {x \in Range(df) : x.AIRLINE # NA}}
    /\ \A i \in 1..Len(grouped) :
          grouped[i].Passenger
             = MetricOver(LAMBDA r : RecordKey(r) = <<grouped[i].AIRLINE, grouped[i].ROUTE,
                                                       grouped[i].Year, grouped[i].Month>>)

\* the table of the code's own order of the statements
SequentialTable ==
    LET g == WithShare(GroupAgg(df))
    IN  FinalTable(WithAirport(WithRouteHHI(g, RouteHhiDict(g)),
                               AirportHhiDict(Ends(df)), FlightsMap(Ends(df)),
                               RouteMap(df)))

\* C15: the three aggregations are mutually independent, each reading only the
\* input records: started in any order, none fails, and they give the same
\* three mappings and the same final table.
C15_AnyOrderSameResult ==
    /\ raised = ""
    /\ Started("route") => RouteMappingFromInput \/ Finished
    /\ Started("airline") => AirlineMappingsFromInput
    /\ Started("airport") => AirportMappingsFromInput
    /\ Finished => final = SequentialTable

\* C15 (amended): the airport aggregation reads only the input records: run
\* before, between or after the other two it gives the same airport HHIs and
\* flight counts.  The totals per airline and period read the result of the
\* route-period aggregation: started before it they fail on the unbound
\* grouped, and no other order fails.  Every order that runs the route-period
\* aggregation before them gives the same three mappings and the same final
\* table.
C15_AirportIndependentAirlineAfterRoute ==
    /\ Started("airport") => AirportMappingsFromInput
    /\ (Started("route") /\ ~Finished) => RouteMappingFromInput
    /\ pc = "error" <=>
          \E i \in 1..Len(order) :
              order[i] = "airline" /\ \A j \in 1..(i - 1) : order[j] # "route"
    /\ pc = "error" => raised = "UnboundLocalError: grouped"
    /\ (Started("airline") /\ pc # "error") => AirlineMappingsFromInput
    /\ Finished => final = SequentialTable

\* the airport aggregation ran first, on an input with a record without
\* airline, and the call has returned a table with a row
C15_Witness ==
    /\ Finished
    /\ order = <<"airport", "route", "airline">>
    /\ Len(final) > 0
    /\ \E r \in Range(df) : r.AIRLINE = NA /\ r.PASSENGER_METRIC > 0
    /\ \E key \in DOMAIN airport_hhi : airport_hhi[key].num > 0

-----------------------------------------------------------------------------
\* the number of seats of an input record: its SEATS cell, 0 for none
SeatCount(rec) == IF rec.SEATS = <<>> THEN 0 ELSE rec.SEATS[1]

\* the input records of an output row
RecordsOfRow(row) == {j \in 1..Len(df) : RecordKey(df[j]) = RowKey(row)}

\* the sum of seats * load factor, and of the load factor, over the records J
SeatsTimesLoad(J) == SumOver(J, [j \in J |-> SeatCount(records[j]) * records[j].LOAD])

LoadFactor(J) == SumOver(J, [j \in J |-> records[j].LOAD])

\* the row keys and the row order are those the input gives, whatever the flag
KeysFromInput ==
    /\ {RowKey(final[i]) : i \in 1..Len(final)}
          = {RecordKey(r) : r \in {x \in Range(df) : x.AIRLINE # NA}}
    /\ RowsAscending

\* C16: with use_seats_times_load True the Passenger of every output row is the
\* sum of seats * load factor over the row's records, with False it is the sum
\* of the load factor; the row keys and the row order do not depend on the flag.
C16_FlagSelectsMetric ==
    Finished =>
        /\ \A i \in 1..Len(final) :
              final[i].Passenger
                 = IF use_seats_times_load
                   THEN SeatsTimesLoad(RecordsOfRow(final[i]))
                   ELSE LoadFactor(RecordsOfRow(final[i]))
        /\ KeysFromInput

\* What the flag does: it selects seats * load factor only on an input that
\* has a seats column; on any other input Passenger is the sum of the load
\* factor under either value of the flag.
C16_FlagNeedsSeatsColumn ==
    Finished =>
        /\ \A i \in 1..Len(final) :
              final[i].Passenger
                 = IF use_seats_times_load /\ SEATS_COL # NA
                   THEN SeatsTimesLoad(RecordsOfRow(final[i]))
                   ELSE LoadFactor(RecordsOfRow(final[i]))
        /\ KeysFromInput

\* a call with the flag set has returned, on an input without a seats column
\* and with a positive load factor
C16_Witness ==
    /\ Finished
    /\ use_seats_times_load
    /\ SEATS_COL = NA
    /\ \E i \in 1..Len(final) : final[i].Passenger > 0

-----------------------------------------------------------------------------
\* the values each multiplied by f
Scaled(vals, f) == MapSeq(vals, LAMBDA v : f * v)

\* the factors by which the sums can be scaled within the bound of the model
ScalesOf(sums) == {f \in Scales : f * SumSeq(sums) <= MaxScaledTotal}

\* C17: calculate_hhi of non-negative values each multiplied by a positive
\* factor equals calculate_hhi of the values; so the RouteHHI and the airport
\* HHIs of the rows are those of the per-airline sums multiplied by the factor,
\* which are the sums of the records with every metric multiplied by it.
C17_ScaleInvariant ==
    /\ pc = "rescaled" =>
          /\ factor > 0
          /\ SameNumber(hhi[2], hhi[1])
    /\ Finished =>
          \A i \in 1..Len(final) :
              LET row == final[i]
                  sums == RouteSums(row.ROUTE, row.Year, row.Month)
                  from == route_map[row.ROUTE].FROM_IATA
                  atFrom == AirportSums(from, row.Year, row.Month)
              IN  /\ \A f \in ScalesOf(sums) :
                        Round2(calculate_hhi(Scaled(sums, f))) = row.RouteHHI
                  /\ from # NA =>
                        \A f \in ScalesOf(atFrom) :
                            Round2(calculate_hhi(Scaled(atFrom, f))) = row.AirHHI_From

\* calculate_hhi has been called on unequal positive values and on their triple
C17_Witness ==
    /\ pc = "rescaled"
    /\ values = <<100, 1>>
    /\ factor = 3
    /\ hhi[1].num > 0
    /\ hhi[2].num > hhi[1].num

-----------------------------------------------------------------------------
\* the origin and destination appearances of the airport in the period, over
\* the records that satisfy P
AppearancesOver(ap, y, m, P(_)) ==
    SumSeq(MapSeq(Rows(df, LAMBDA r : r.Year = y /\ r.Month = m /\ P(r)),
                  LAMBDA r : Appearances(r, ap)))

HasAirline(r) == r.AIRLINE # NA

NoAirline(r) == r.AIRLINE = NA

\* C18: the flight count of every (airport, year, month) is the number of
\* origin and destination appearances of exactly the records that feed the
\* airport HHI: a record left out of the route-period aggregation for its
\* missing airline is left out of the flight counts as well.
C18_SameRecordsCounted ==
    AirportComputed =>
        \A ap \in Airports : \A p \in InputPeriods :
            Get(flights_map, <<p[1], p[2], ap>>, 0)
               = AppearancesOver(ap, p[1], p[2], HasAirline)

\* C18 (amended): the flight counts and the airport HHI are not over the same
\* records.  The airport HHI is over the records that have an airline, as
\* the route-period aggregation is; the flight count is over all records: it
\* is the appearances of the records that feed the airport HHI plus the
\* appearances of the records without airline, and the two agree exactly when
\* no record of the period without airline touches the airport.
C18_FlightCountsKeepRecordsWithoutAirline ==
    AirportComputed =>
        \A ap \in Airports : \A p \in InputPeriods :
            LET flights == Get(flights_map, <<p[1], p[2], ap>>, 0)
                feeding == AppearancesOver(ap, p[1], p[2], HasAirline)
                others == AppearancesOver(ap, p[1], p[2], NoAirline)
            IN  /\ flights = feeding + others
                /\ flights = feeding <=> others = 0
                /\ feeding = 0 => <<p[1], p[2], ap>> \notin DOMAIN airport_hhi
                /\ SameNumber(Get(airport_hhi, <<p[1], p[2], ap>>, Frac(0, 1)),
                              calculate_hhi(AirportSums(ap, p[1], p[2])))

\* an airport with two appearances of records that have an airline and one of
\* a record that has none: its flight count is 3 and a row carries it
C18_Witness ==
    /\ Finished
    /\ \E p \in InputPeriods :
          /\ AppearancesOver("CEB", p[1], p[2], HasAirline) = 2
          /\ AppearancesOver("CEB", p[1], p[2], NoAirline) = 1
          /\ flights_map[<<p[1], p[2], "CEB">>] = 3
          /\ \E i \in 1..Len(final) : final[i].AirFli_To = 3

-----------------------------------------------------------------------------
\* the clicks load_all_pages has counted
Clicks == counts.earlier + counts.later

\* C19: whatever buttons the passes find, each pass clicks at most once, no
\* counter exceeds max_clicks_each, and the loop ends within 2 * max_clicks_each
\* clicks: a pass that clicks nothing is the last, as is the pass after which
\* both counters are at max_clicks_each, and a wait that times out after a
\* click changes nothing of this.
C19_LoopEnds ==
    lp # "idle" =>
        /\ counts.earlier <= max_clicks_each /\ counts.later <= max_clicks_each
        /\ Clicks <= 2 * max_clicks_each
        /\ Clicks <= passes
        /\ passes <= Clicks + 1
        /\ passes <= 2 * max_clicks_each + 1
        /\ lp = "loop" =>
              /\ passes = Clicks
              /\ passes > 0 => any_clicked /\ ~Exhausted(counts)
        /\ lp = "returned" =>
              /\ ~any_clicked \/ Exhausted(counts)
              /\ passes = Clicks + (IF any_clicked THEN 0 ELSE 1)
        /\ lp = "raised" => passes = Clicks + 1
        /\ wait = "timeout" =>
              /\ any_clicked
              /\ lp = "returned" <=> Exhausted(counts)

\* the loop has ended after four passes that each clicked, both counters at
\* max_clicks_each = 2, the last wait timed out, the last click on the second
\* button of the list
C19_Witness ==
    /\ lp = "returned"
    /\ max_clicks_each = 2
    /\ counts = [earlier |-> 2, later |-> 2]
    /\ passes = 4
    /\ wait = "timeout"
    /\ clicked # <<>> /\ clicked[1].at = 2

====
